---- MODULE Spec2Model ----
(***************************************************************************)
(* A model of python/cmsis_svd/parser.py: the primitive extractors         *)
(* (_get_text, _get_int), the field and register translators, and the two  *)
(* in-place transforms duplicate_arrays_of_registers and remove_reserved.  *)
(*                                                                         *)
(* Conventions.  A Python str is a sequence of one-character strings.  An  *)
(* optional value is a tuple: None is <<>> and a present value v is <<v>>. *)
(* A call that may raise returns a record [ok, val, err]; err names the    *)
(* exception class.  Sequences are 1-based here and 0-based in the source: *)
(* the model's index k is the source's index k-1.                          *)
(***************************************************************************)
EXTENDS Integers, Sequences, FiniteSets, TLC

VARIABLES
    pc,       \* control point of the run ("call", "parse", "dar", "reg", "field", "done", or an exception name)
    tree,     \* the document node handed to the parser
    given,    \* history: the values the document was rendered from
    result,   \* value returned by the translator under test
    periphs,  \* device.peripherals: one register list per peripheral
    heap,     \* the field lists, by reference: heap[id] is the list object id
    p,        \* duplicate_arrays_of_registers / remove_reserved: index of the peripheral being visited
    i,        \* index of the register being visited (1-based)
    f,        \* remove_reserved: index of the field being visited (1-based)
    call,     \* history: argument and return value of the last duplicate_array_of_registers call
    dev0,     \* history: periphs when the transform was first called
    npass,    \* how many times duplicate_arrays_of_registers has been called
    after1,   \* history: periphs when the first duplicate_arrays_of_registers returned
    mut       \* history: the register through which the caller last changed a field list

vars == <<pc, tree, given, result, periphs, heap, p, i, f, call, dev0, npass, after1, mut>>

-----------------------------------------------------------------------------
(* Python values *)

None == <<>>
Some(v) == <<v>>
IsNone(o) == Len(o) = 0
Val(o) == o[1]

Ok(v) == [ok |-> TRUE, val |-> v, err |-> ""]
Raise(e) == [ok |-> FALSE, val |-> None, err |-> e]

Range(s) == {s[k] : k \in DOMAIN s}

\* str.lower() on one ASCII character
LowerChar(c) ==
    CASE c = "A" -> "a" [] c = "B" -> "b" [] c = "C" -> "c" [] c = "D" -> "d"
      [] c = "E" -> "e" [] c = "F" -> "f" [] c = "G" -> "g" [] c = "H" -> "h"
      [] c = "I" -> "i" [] c = "J" -> "j" [] c = "K" -> "k" [] c = "L" -> "l"
      [] c = "M" -> "m" [] c = "N" -> "n" [] c = "O" -> "o" [] c = "P" -> "p"
      [] c = "Q" -> "q" [] c = "R" -> "r" [] c = "S" -> "s" [] c = "T" -> "t"
      [] c = "U" -> "u" [] c = "V" -> "v" [] c = "W" -> "w" [] c = "X" -> "x"
      [] c = "Y" -> "y" [] c = "Z" -> "z"
      [] OTHER -> c

\* str.lower()
Lower(s) == [k \in DOMAIN s |-> LowerChar(s[k])]

\* s.startswith(prefix)
StartsWith(s, prefix) ==
    /\ Len(s) >= Len(prefix)
    /\ SubSeq(s, 1, Len(prefix)) = prefix

\* needle in s
Contains(s, needle) ==
    \E k \in 1..(Len(s) - Len(needle) + 1) : SubSeq(s, k, k + Len(needle) - 1) = needle

\* s.replace(old, new) for one-character old and new
ReplaceChar(s, old, new) == [k \in DOMAIN s |-> IF s[k] = old THEN new ELSE s[k]]

\* value of a digit character, -1 for a character that is no digit
DigitValue(c) ==
    CASE c = "0" -> 0 [] c = "1" -> 1 [] c = "2" -> 2 [] c = "3" -> 3 [] c = "4" -> 4
      [] c = "5" -> 5 [] c = "6" -> 6 [] c = "7" -> 7 [] c = "8" -> 8 [] c = "9" -> 9
      [] c = "a" -> 10 [] c = "A" -> 10 [] c = "f" -> 15 [] c = "F" -> 15
      [] OTHER -> -1

IsDigit(c, base) == DigitValue(c) >= 0 /\ DigitValue(c) < base

RECURSIVE Horner(_, _, _)
Horner(s, base, acc) ==
    IF s = <<>> THEN acc ELSE Horner(Tail(s), base, acc * base + DigitValue(Head(s)))

\* The builtin int(s, base) on strings without whitespace, sign, underscore
\* or the letters b and o: an optional 0x prefix when base is 16, then one
\* or more digits of the base; anything else is a ValueError.
PyInt(s, base) ==
    LET body == IF base = 16 /\ StartsWith(Lower(s), <<"0", "x">>)
                THEN SubSeq(s, 3, Len(s)) ELSE s
    IN  IF body = <<>> \/ \E k \in DOMAIN body : ~IsDigit(body[k], base)
        THEN Raise("ValueError")
        ELSE Ok(Some(Horner(body, base, 0)))

-----------------------------------------------------------------------------
(* Primitive extractors.  A node is a record from tag to optional text;   *)
(* a tag whose element is missing (or has no text) is None.               *)

_get_text(node, tag, default) ==
    IF IsNone(node[tag]) THEN default ELSE node[tag]

\* a plausible slip: the binary branch skips two characters, as the hexadecimal one does
get_int_slice2(node, tag, default) ==
    LET text_value == _get_text(node, tag, default)
    IN  IF text_value # default
        THEN IF IsNone(text_value) THEN Raise("AttributeError")
             ELSE LET s == Val(text_value)
                  IN  IF StartsWith(Lower(s), <<"0", "x">>)
                      THEN PyInt(SubSeq(s, 3, Len(s)), 16)
                      ELSE IF StartsWith(s, <<"#">>)
                      THEN PyInt(SubSeq(ReplaceChar(s, "x", "0"), 3, Len(s)), 2)
                      ELSE PyInt(s, 10)
        ELSE Ok(default)

_get_int(node, tag, default) ==
    LET text_value == _get_text(node, tag, default)
    IN  IF text_value # default
        THEN IF IsNone(text_value) THEN Raise("AttributeError")
             ELSE LET s == Val(text_value)
                  IN  IF StartsWith(Lower(s), <<"0", "x">>)
                      THEN PyInt(SubSeq(s, 3, Len(s)), 16)
                      ELSE IF StartsWith(s, <<"#">>)
                      THEN PyInt(SubSeq(ReplaceChar(s, "x", "0"), 2, Len(s)), 2)
                      ELSE PyInt(s, 10)
        ELSE Ok(default)

-----------------------------------------------------------------------------
(* Specification SpecInt: _get_int on every text up to MaxLen characters. *)

MaxLen == 4

IntChars == {"0", "1", "2", "4", "F", "x", "X", "#"}

Texts == UNION {[1..n -> IntChars] : n \in 0..MaxLen}

Idle ==
    /\ given = None /\ result = None /\ periphs = <<>> /\ heap = <<>>
    /\ p = 0 /\ i = 0 /\ f = 0 /\ call = None /\ dev0 = <<>>
    /\ npass = 0 /\ after1 = <<>> /\ mut = None

InitInt ==
    /\ pc = "call"
    /\ tree \in {[value |-> None]} \cup {[value |-> Some(s)] : s \in Texts}
    /\ Idle

CallGetInt ==
    /\ pc = "call"
    /\ result' = _get_int(tree, "value", None)
    /\ pc' = "done"
    /\ UNCHANGED <<tree, given, periphs, heap, p, i, f, call, dev0, npass, after1, mut>>

NextInt == CallGetInt

SpecInt == InitInt /\ [][NextInt]_vars

\* positional value of a digit string: the sum of digit * base^(distance from the right)
RECURSIVE Pow(_, _)
Pow(b, n) == IF n = 0 THEN 1 ELSE b * Pow(b, n - 1)

RECURSIVE PositionalSum(_, _, _)
PositionalSum(s, base, k) ==
    IF k > Len(s) THEN 0
    ELSE DigitValue(s[k]) * Pow(base, Len(s) - k) + PositionalSum(s, base, k + 1)

RefValue(s, base) == PositionalSum(s, base, 1)

AllDigits(s, base) == s # <<>> /\ \A k \in DOMAIN s : IsDigit(s[k], base)

IsHexForm(s) == Len(s) >= 2 /\ s[1] = "0" /\ s[2] \in {"x", "X"}
IsHashForm(s) == Len(s) >= 1 /\ s[1] = "#"

\* don't-care coercions: of the lowercase x alone, and of every character other than 0 and 1
CoerceX(s) == [k \in DOMAIN s |-> IF s[k] = "x" THEN "0" ELSE s[k]]
CoerceAll(s) == [k \in DOMAIN s |-> IF s[k] \in {"0", "1"} THEN s[k] ELSE "0"]

\* the parts of the claim that the code and the claim agree on
C7_Common ==
    /\ IsNone(tree.value) => result = Ok(None)
    /\ ~IsNone(tree.value) =>
         LET s == Val(tree.value)
             hexDigits == SubSeq(s, 3, Len(s))
         IN  /\ IsHexForm(s) /\ AllDigits(hexDigits, 16)
                  => result = Ok(Some(RefValue(hexDigits, 16)))
             /\ ~IsHexForm(s) /\ ~IsHashForm(s) /\ AllDigits(s, 10)
                  => result = Ok(Some(RefValue(s, 10)))
             /\ s = <<"0", "x", "1", "F">> => result = Ok(Some(31))
             /\ s = <<"#", "1", "x", "0">> => result = Ok(Some(4))
             /\ s = <<"4", "2">> => result = Ok(Some(42))

\* C7 as stated: after a #, every character other than 0 and 1 is coerced
\* to 0 and the rest is read in base 2.
C7_AnyDontCareCoerced ==
    pc = "done" =>
        /\ C7_Common
        /\ ~IsNone(tree.value) /\ IsHashForm(Val(tree.value)) /\ Len(Val(tree.value)) >= 2
             => result = Ok(Some(RefValue(CoerceAll(Tail(Val(tree.value))), 2)))

\* C7 amended: _get_int picks one encoding by textual form.  0x/0X: the
\* base-16 value of the hex digits after the prefix.  #: when one or more
\* characters follow and all are 0, 1 or lowercase x, their base-2 value
\* with each x read as 0; when an uppercase X, a digit from 2 to 9, an F or
\* another # is among them, or nothing follows, a ValueError.  Otherwise the
\* base-10 value of the digits.  An absent tag yields the default.
C7_GetIntEncodings ==
    pc = "done" =>
        /\ C7_Common
        /\ ~IsNone(tree.value) /\ IsHashForm(Val(tree.value)) =>
             LET rest == Tail(Val(tree.value))
             IN  IF rest # <<>> /\ Range(rest) \subseteq {"0", "1", "x"}
                 THEN result = Ok(Some(RefValue(CoerceX(rest), 2)))
                 ELSE result = Raise("ValueError")

C7_Witness ==
    /\ pc = "done"
    /\ tree.value = Some(<<"#", "1", "x", "0">>)
    /\ result = Ok(Some(4))

-----------------------------------------------------------------------------
(* Field translator.  The classes of cmsis_svd.model store the keyword     *)
(* arguments they are constructed with.                                    *)

SVDEnumeratedValue(name, description, value) ==
    [name |-> name, description |-> description, value |-> value]

SVDField(name, description, bit_offset, bit_width, access, enumerated_values) ==
    [name |-> name, description |-> description, bit_offset |-> bit_offset,
     bit_width |-> bit_width, access |-> access, enumerated_values |-> enumerated_values]

\* lines 76-81, given the value read
EnumeratedValueOf(enumerated_value_node, value) ==
    IF ~value.ok THEN value
    ELSE Ok(SVDEnumeratedValue(_get_text(enumerated_value_node, "name", None),
                               _get_text(enumerated_value_node, "description", None),
                               value.val))

_parse_enumerated_value(enumerated_value_node) ==
    EnumeratedValueOf(enumerated_value_node, _get_int(enumerated_value_node, "value", None))

IsDecimal(c) == IsDigit(c, 10)

\* length of the longest run of decimal digits of s that starts at index k
RECURSIVE DigitRun(_, _)
DigitRun(s, k) ==
    IF k <= Len(s) /\ IsDecimal(s[k]) THEN 1 + DigitRun(s, k + 1) ELSE 0

\* whether '\[([0-9]+):([0-9]+)\]' matches s at index k
MatchesAt(s, k) ==
    LET n1 == DigitRun(s, k + 1)
        n2 == DigitRun(s, k + n1 + 2)
    IN  /\ s[k] = "["
        /\ n1 >= 1
        /\ k + n1 + 1 <= Len(s) /\ s[k + n1 + 1] = ":"
        /\ n2 >= 1
        /\ k + n1 + n2 + 2 <= Len(s) /\ s[k + n1 + n2 + 2] = "]"

\* re.search('\[([0-9]+):([0-9]+)\]', s): the two groups of the leftmost
\* match, or None
ReSearch(s) ==
    LET hits == {k \in DOMAIN s : MatchesAt(s, k)}
    IN  IF hits = {} THEN None
        ELSE LET k == CHOOSE h \in hits : \A g \in hits : h <= g
                 n1 == DigitRun(s, k + 1)
                 n2 == DigitRun(s, k + n1 + 2)
             IN  Some(<<SubSeq(s, k + 1, k + n1), SubSeq(s, k + n1 + 2, k + n1 + n2 + 1)>>)

\* the first call of a sequence of calls that raised, or None
FirstRaise(calls) ==
    LET bad == {k \in DOMAIN calls : ~calls[k].ok}
    IN  IF bad = {} THEN None
        ELSE Some(calls[CHOOSE k \in bad : \A j \in bad : k <= j])

\* lines 88-99: the resolved (bit_offset, bit_width)
BitPosition(bit_range, bit_offset, bit_width, msb, lsb) ==
    IF ~IsNone(bit_range)
    THEN LET m == ReSearch(Val(bit_range))
         IN  IF IsNone(m) THEN Raise("AttributeError")
             ELSE LET hi == Val(PyInt(Val(m)[1], 10).val)
                      lo == Val(PyInt(Val(m)[2], 10).val)
                  IN  Ok(<<Some(lo), Some(1 + (hi - lo))>>)
    ELSE IF ~IsNone(msb)
    THEN IF IsNone(lsb) THEN Raise("TypeError")
         ELSE Ok(<<lsb, Some(1 + (Val(msb) - Val(lsb)))>>)
    ELSE Ok(<<bit_offset, bit_width>>)

\* lines 100-108: the field built from the position resolved
FieldAt(field_node, enumerated_values, pos) ==
    IF ~pos.ok THEN pos
    ELSE Ok(SVDField(_get_text(field_node, "name", None),
                     _get_text(field_node, "description", None),
                     pos.val[1],
                     pos.val[2],
                     _get_text(field_node, "access", None),
                     IF enumerated_values = <<>> THEN None
                     ELSE Some([k \in DOMAIN enumerated_values |-> enumerated_values[k].val])))

\* lines 88-108, given what lines 84-92 read from the node: an exception
\* raised while reading leaves the method at once
FieldOf(field_node, enumerated_values, bit_range, bit_offset, bit_width, msb, lsb) ==
    LET raised == FirstRaise(enumerated_values \o <<bit_offset, bit_width, msb, lsb>>)
    IN  IF ~IsNone(raised) THEN Val(raised)
        ELSE FieldAt(field_node, enumerated_values,
                     BitPosition(bit_range, bit_offset.val, bit_width.val, msb.val, lsb.val))

_parse_field(field_node) ==
    FieldOf(field_node,
            [k \in DOMAIN field_node.enumeratedValues |->
                _parse_enumerated_value(field_node.enumeratedValues[k])],
            _get_text(field_node, "bitRange", None),
            _get_int(field_node, "bitOffset", None),
            _get_int(field_node, "bitWidth", None),
            _get_int(field_node, "msb", None),
            _get_int(field_node, "lsb", None))

-----------------------------------------------------------------------------
(* Specification SpecField: _parse_field on field nodes rendered from      *)
(* every combination of present and absent position notations.            *)

MaxBit == 2

BitValues == (0..MaxBit) \cup {15}

DigitChar(d) ==
    CASE d = 0 -> "0" [] d = 1 -> "1" [] d = 2 -> "2" [] d = 3 -> "3" [] d = 4 -> "4"
      [] d = 5 -> "5" [] d = 6 -> "6" [] d = 7 -> "7" [] d = 8 -> "8" [] d = 9 -> "9"
      [] d = 10 -> "a" [] OTHER -> "F"

\* the digits of n in a base, most significant first
RECURSIVE Digits(_, _)
Digits(n, base) ==
    IF n < base THEN <<DigitChar(n)>>
    ELSE Digits(n \div base, base) \o <<DigitChar(n % base)>>

Decimal(n) == Digits(n, 10)
Hex(n) == <<"0", "x">> \o Digits(n, 16)
Binary(n) == <<"#">> \o Digits(n, 2)

OptOf(S) == {None} \cup {Some(v) : v \in S}

BitRangeText(pair) == <<"[">> \o Decimal(pair[1]) \o <<":">> \o Decimal(pair[2]) \o <<"]">>

EnumNode == [name |-> Some(<<"o", "n">>), description |-> None, value |-> Some(<<"#", "1", "x">>)]

\* the field node that writes the given values down
FieldNode(g) ==
    [name |-> Some(<<"E", "N">>), description |-> None, access |-> None,
     bitRange |-> IF IsNone(g.range) THEN None ELSE Some(BitRangeText(Val(g.range))),
     bitOffset |-> IF IsNone(g.off) THEN None ELSE Some(Hex(Val(g.off))),
     bitWidth |-> IF IsNone(g.wid) THEN None ELSE Some(Binary(Val(g.wid))),
     msb |-> IF IsNone(g.msb) THEN None ELSE Some(Decimal(Val(g.msb))),
     lsb |-> IF IsNone(g.lsb) THEN None ELSE Some(Decimal(Val(g.lsb))),
     enumeratedValues |-> IF g.enums THEN <<EnumNode>> ELSE <<>>]

InitField ==
    /\ pc = "call"
    /\ given \in [range : OptOf(BitValues \X BitValues), msb : OptOf(BitValues),
                  lsb : OptOf(BitValues), off : OptOf(BitValues), wid : OptOf(BitValues),
                  enums : BOOLEAN]
    /\ tree = FieldNode(given)
    /\ result = None /\ periphs = <<>> /\ heap = <<>>
    /\ p = 0 /\ i = 0 /\ f = 0 /\ call = None /\ dev0 = <<>>
    /\ npass = 0 /\ after1 = <<>> /\ mut = None

CallParseField ==
    /\ pc = "call"
    /\ result' = _parse_field(tree)
    /\ pc' = "done"
    /\ UNCHANGED <<tree, given, periphs, heap, p, i, f, call, dev0, npass, after1, mut>>

NextField == CallParseField

SpecField == InitField /\ [][NextField]_vars

\* C6: bitRange [m:l] first, giving (l, m-l+1) whatever else is present;
\* otherwise the msb/lsb pair when both are present, giving (lsb, msb-lsb+1);
\* otherwise bitOffset and bitWidth verbatim, each None when not given.
C6_PairPriority ==
    pc = "done" =>
        IF ~IsNone(given.range)
        THEN /\ result.ok
             /\ result.val.bit_offset = Some(Val(given.range)[2])
             /\ result.val.bit_width = Some(Val(given.range)[1] - Val(given.range)[2] + 1)
        ELSE IF ~IsNone(given.msb) /\ ~IsNone(given.lsb)
        THEN /\ result.ok
             /\ result.val.bit_offset = given.lsb
             /\ result.val.bit_width = Some(Val(given.msb) - Val(given.lsb) + 1)
        ELSE /\ result.ok
             /\ result.val.bit_offset = given.off
             /\ result.val.bit_width = given.wid

\* what holds of the code in C6's place: bitRange [m:l] first, giving
\* (l, m-l+1) whatever else is present; otherwise, when msb is present,
\* (lsb, msb-lsb+1), which is a TypeError when lsb is absent; otherwise (msb
\* absent, lsb present or not) bitOffset and bitWidth verbatim.
C6_MsbPriority ==
    pc = "done" =>
        IF ~IsNone(given.range)
        THEN /\ result.ok
             /\ result.val.bit_offset = Some(Val(given.range)[2])
             /\ result.val.bit_width = Some(Val(given.range)[1] - Val(given.range)[2] + 1)
        ELSE IF ~IsNone(given.msb)
        THEN IF ~IsNone(given.lsb)
             THEN /\ result.ok
                  /\ result.val.bit_offset = given.lsb
                  /\ result.val.bit_width = Some(Val(given.msb) - Val(given.lsb) + 1)
             ELSE result = Raise("TypeError")
        ELSE /\ result.ok
             /\ result.val.bit_offset = given.off
             /\ result.val.bit_width = given.wid

\* a bitRange wins over an msb/lsb pair and a bitOffset that disagree with it
C6_Witness ==
    /\ pc = "done"
    /\ given.range = Some(<<15, 2>>)
    /\ given.msb = Some(1) /\ given.lsb = Some(0) /\ given.off = Some(1)
    /\ result.ok /\ result.val.bit_offset = Some(2) /\ result.val.bit_width = Some(14)

-----------------------------------------------------------------------------
(* Register translator.  An SVDRegister holds its field list by reference: *)
(* the fields attribute is the id of a list object in the heap.            *)

SVDRegister(name, description, address_offset, size, access, reset_value, reset_mask, fields, dim, dim_increment, dim_index) ==
    [name |-> name, description |-> description, address_offset |-> address_offset,
     size |-> size, access |-> access, reset_value |-> reset_value,
     reset_mask |-> reset_mask, fields |-> fields, dim |-> dim,
     dim_increment |-> dim_increment, dim_index |-> dim_index]

\* s.split(sep) for a one-character separator.  The tokens of a string are
\* those of its two halves, the last token of the left half and the first
\* of the right half being one token.
RECURSIVE Split(_, _)
Split(s, sep) ==
    IF Len(s) = 0 THEN <<s>>
    ELSE IF Len(s) = 1 THEN (IF s[1] = sep THEN <<<<>>, <<>>>> ELSE <<s>>)
    ELSE LET half == Len(s) \div 2
             left == Split(SubSeq(s, 1, half), sep)
             right == Split(SubSeq(s, half + 1, Len(s)), sep)
         IN  SubSeq(left, 1, Len(left) - 1)
             \o <<left[Len(left)] \o right[1]>>
             \o SubSeq(right, 2, Len(right))

\* lines 114-116: dim_index, split on ',' when there is one
SplitIndex(dim_index) ==
    IF ~IsNone(dim_index) THEN Some(Split(Val(dim_index), ",")) ELSE dim_index

\* lines 117-129, given what lines 111-128 read from the node, in a heap h:
\* an exception raised while reading leaves the method at once
RegisterOf(register_node, h, fields, dim_index, address_offset, size, reset_value, reset_mask, dim, dim_increment) ==
    LET raised == FirstRaise(fields \o <<address_offset, size, reset_value, reset_mask,
                                         dim, dim_increment>>)
    IN  IF ~IsNone(raised) THEN [ok |-> FALSE, val |-> None, err |-> Val(raised).err, heap |-> h]
        ELSE [ok |-> TRUE, err |-> "",
              heap |-> Append(h, [k \in DOMAIN fields |-> fields[k].val]),
              val |-> Some(SVDRegister(_get_text(register_node, "name", None),
                                       _get_text(register_node, "description", None),
                                       address_offset.val, size.val,
                                       _get_text(register_node, "access", None),
                                       reset_value.val, reset_mask.val,
                                       Len(h) + 1,
                                       dim.val, dim_increment.val, dim_index))]

\* a plausible slip: dimIndex is stored as read, without the split on ','
parse_register_unsplit(register_node, h) ==
    RegisterOf(register_node, h,
               [k \in DOMAIN register_node.fields |-> _parse_field(register_node.fields[k])],
               _get_text(register_node, "dimIndex", None),
               _get_int(register_node, "addressOffset", None),
               _get_int(register_node, "size", None),
               _get_int(register_node, "resetValue", None),
               _get_int(register_node, "resetMask", None),
               _get_int(register_node, "dim", None),
               _get_int(register_node, "dimIncrement", None))

\* _parse_register in a heap h: the register built and the heap with its new
\* field list (line 111) in it
_parse_register(register_node, h) ==
    RegisterOf(register_node, h,
               [k \in DOMAIN register_node.fields |-> _parse_field(register_node.fields[k])],
               SplitIndex(_get_text(register_node, "dimIndex", None)),
               _get_int(register_node, "addressOffset", None),
               _get_int(register_node, "size", None),
               _get_int(register_node, "resetValue", None),
               _get_int(register_node, "resetMask", None),
               _get_int(register_node, "dim", None),
               _get_int(register_node, "dimIncrement", None))

RECURSIVE ParseRegisters(_, _, _)

\* lines 146-147, given the register parsed: an exception leaves the loop
RegistersAfter(r, register_nodes, done) ==
    IF ~r.ok THEN r
    ELSE ParseRegisters(register_nodes, Append(done, Val(r.val)), r.heap)

\* lines 145-147: the register list of one peripheral, parsed in document
\* order (the peripheral's other attributes are read by no transform)
ParseRegisters(register_nodes, done, h) ==
    IF register_nodes = <<>> THEN [ok |-> TRUE, err |-> "", val |-> done, heap |-> h]
    ELSE RegistersAfter(_parse_register(Head(register_nodes), h), Tail(register_nodes), done)

_parse_peripheral(peripheral_node, h) == ParseRegisters(peripheral_node, <<>>, h)

RECURSIVE ParsePeripherals(_, _, _)

\* lines 171-172, given the peripheral parsed: an exception leaves the loop
PeripheralsAfter(r, peripheral_nodes, done) ==
    IF ~r.ok THEN r
    ELSE ParsePeripherals(peripheral_nodes, Append(done, r.val), r.heap)

\* lines 170-172: device.peripherals, each peripheral standing for its register list
ParsePeripherals(peripheral_nodes, done, h) ==
    IF peripheral_nodes = <<>> THEN [ok |-> TRUE, err |-> "", val |-> done, heap |-> h]
    ELSE PeripheralsAfter(_parse_peripheral(Head(peripheral_nodes), h),
                          Tail(peripheral_nodes), done)

_parse_device(device_node) == ParsePeripherals(device_node, <<>>, <<>>)

-----------------------------------------------------------------------------
(* Array expansion *)

\* the integers that CPython keeps as single objects
SmallInts == -5..256

\* a is b for two integers made at run time.  Equal integers in SmallInts
\* are one object.  Beyond them the language leaves it open: CPython makes
\* two objects, an interpreter that compares integers by value makes them
\* identical; shared says which of the two this run does.
PyIs(a, b, shared) == a = b /\ (a \in SmallInts \/ shared)

\* fmt % arg for a str arg: %s takes the argument, %% is a percent sign; the
\* model's names hold no other character after a % than these two
RECURSIVE PyFormat(_, _, _)
PyFormat(fmt, arg, used) ==
    IF fmt = <<>>
    THEN IF used THEN Ok(<<>>) ELSE Raise("TypeError")
    ELSE IF Head(fmt) # "%"
    THEN LET rest == PyFormat(Tail(fmt), arg, used)
         IN  IF rest.ok THEN Ok(<<Head(fmt)>> \o rest.val) ELSE rest
    ELSE IF Len(fmt) = 1 THEN Raise("ValueError")
    ELSE IF fmt[2] = "%"
    THEN LET rest == PyFormat(SubSeq(fmt, 3, Len(fmt)), arg, used)
         IN  IF rest.ok THEN Ok(<<"%">> \o rest.val) ELSE rest
    ELSE IF fmt[2] = "s"
    THEN IF used THEN Raise("TypeError")
         ELSE LET rest == PyFormat(SubSeq(fmt, 3, Len(fmt)), arg, TRUE)
              IN  IF rest.ok THEN Ok(arg \o rest.val) ELSE rest
    ELSE Raise("ValueError")

\* lines 193-205: the register appended for the source's index k (0-based)
ExpandedRegister(input, k) ==
    IF IsNone(input.name) THEN Raise("TypeError")
    ELSE LET name == PyFormat(Val(input.name), Val(input.dim_index)[k + 1], FALSE)
         IN  IF ~name.ok THEN name
             ELSE IF IsNone(input.address_offset) \/ IsNone(input.dim_increment)
             THEN Raise("TypeError")
             ELSE Ok(SVDRegister(Some(name.val), input.description,
                                 Some(Val(input.address_offset) + Val(input.dim_increment) * k),
                                 input.size, input.access, input.reset_value,
                                 input.reset_mask, input.fields, None, None, None))

\* a plausible slip: every copy is given a copy of the field list
\* (fields=list(input.fields))
duplicate_array_copying_fields(input, h, shared) ==
    IF IsNone(input.dim_index)
    THEN [ok |-> FALSE, val |-> <<>>, err |-> "TypeError", heap |-> h]
    ELSE IF IsNone(input.dim) \/ ~PyIs(Val(input.dim), Len(Val(input.dim_index)), shared)
    THEN [ok |-> FALSE, val |-> <<>>, err |-> "AssertionError", heap |-> h]
    ELSE LET made == [k \in 1..Val(input.dim) |-> ExpandedRegister(input, k - 1)]
             raised == FirstRaise(made)
         IN  IF ~IsNone(raised)
             THEN [ok |-> FALSE, val |-> <<>>, err |-> Val(raised).err, heap |-> h]
             ELSE [ok |-> TRUE,
                   val |-> [k \in DOMAIN made |-> [made[k].val EXCEPT !.fields = Len(h) + k]],
                   err |-> "",
                   heap |-> h \o [k \in DOMAIN made |-> h[input.fields]]]

\* duplicate_array_of_registers in a heap h, in a run where equal large
\* integers are (shared) or are not one object; it allocates no list, so
\* the heap it leaves is h
duplicate_array_of_registers(input, h, shared) ==
    IF IsNone(input.dim_index)
    THEN [ok |-> FALSE, val |-> <<>>, err |-> "TypeError", heap |-> h]
    ELSE IF IsNone(input.dim) \/ ~PyIs(Val(input.dim), Len(Val(input.dim_index)), shared)
    THEN [ok |-> FALSE, val |-> <<>>, err |-> "AssertionError", heap |-> h]
    ELSE LET made == [k \in 1..Val(input.dim) |-> ExpandedRegister(input, k - 1)]
             raised == FirstRaise(made)
         IN  IF ~IsNone(raised)
             THEN [ok |-> FALSE, val |-> <<>>, err |-> Val(raised).err, heap |-> h]
             ELSE [ok |-> TRUE, val |-> [k \in DOMAIN made |-> made[k].val],
                   err |-> "", heap |-> h]

\* del regs[k]  (k is 1-based)
Delete(regs, k) == SubSeq(regs, 1, k - 1) \o SubSeq(regs, k + 1, Len(regs))

\* reversed(s)
Reversed(s) == [j \in 1..Len(s) |-> s[Len(s) + 1 - j]]

\* for reg in items: regs.insert(k, reg).  Each insertion at index k pushes
\* the registers inserted before it one place up, so the items end up at k
\* in the reverse of the order they were inserted in.
InsertEach(regs, k, items) ==
    SubSeq(regs, 1, k - 1) \o Reversed(items) \o SubSeq(regs, k, Len(regs))

\* lines 215-216: every register of reversed(output) inserted at index k
InsertReversed(regs, k, output) == InsertEach(regs, k, Reversed(output))

\* the position the two nested loops visit first from peripheral q on:
\* <<peripheral, register>>, the last register of the first peripheral that
\* has one, or <<0, 0>> when the loops are over
RECURSIVE FirstVisit(_, _)
FirstVisit(ps, q) ==
    IF q > Len(ps) THEN <<0, 0>>
    ELSE IF Len(ps[q]) > 0 THEN <<q, Len(ps[q])>>
    ELSE FirstVisit(ps, q + 1)

\* the position visited after register k of peripheral q
NextVisit(ps, q, k) == IF k > 1 THEN <<q, k - 1>> ELSE FirstVisit(ps, q + 1)

-----------------------------------------------------------------------------
(* Specification SpecExpand: a device is parsed from a document of up to   *)
(* MaxRegs register nodes in NumPeriph peripherals, then                   *)
(* duplicate_arrays_of_registers is applied to it, once or twice, and the  *)
(* caller may change a field list through one register of the result.     *)

NumPeriph == 2
MaxRegs == 3

FieldEN ==
    [name |-> Some(<<"E", "N">>), description |-> None, access |-> None,
     bitRange |-> None, bitOffset |-> Some(<<"0">>), bitWidth |-> Some(<<"1">>),
     msb |-> None, lsb |-> None, enumeratedValues |-> <<>>]

FieldMD ==
    [name |-> Some(<<"M", "D">>), description |-> None, access |-> None,
     bitRange |-> Some(<<"[", "2", ":", "1", "]">>), bitOffset |-> None, bitWidth |-> None,
     msb |-> None, lsb |-> None, enumeratedValues |-> <<EnumNode>>]

\* a register that is no array
PlainNode ==
    [name |-> Some(<<"A">>), description |-> None,
     addressOffset |-> Some(<<"0", "x", "0">>), size |-> Some(<<"3", "2">>),
     access |-> None, resetValue |-> Some(<<"0", "x", "1">>), resetMask |-> None,
     dim |-> None, dimIncrement |-> None, dimIndex |-> None,
     fields |-> <<FieldEN>>]

\* an array of two registers, C0 and C1, four bytes apart
ArrayNode ==
    [name |-> Some(<<"C", "%", "s">>), description |-> Some(<<"c">>),
     addressOffset |-> Some(<<"0", "x", "8">>), size |-> Some(<<"1", "6">>),
     access |-> Some(<<"r">>), resetValue |-> Some(<<"#", "1", "x">>),
     resetMask |-> Some(<<"0", "x", "F">>),
     dim |-> Some(<<"2">>), dimIncrement |-> Some(<<"0", "x", "4">>),
     dimIndex |-> Some(<<"0", ",", "1">>),
     fields |-> <<FieldEN, FieldMD>>]

\* an array of three registers, T[A], T[B] and T[C], two bytes apart
Array3Node ==
    [name |-> Some(<<"T", "[", "%", "s", "]">>), description |-> None,
     addressOffset |-> Some(<<"1", "6">>), size |-> Some(<<"8">>),
     access |-> None, resetValue |-> None, resetMask |-> None,
     dim |-> Some(<<"3">>), dimIncrement |-> Some(<<"2">>),
     dimIndex |-> Some(<<"A", ",", "B", ",", "C">>),
     fields |-> <<>>]

\* an array whose dim (2) is not the number of its dimIndex tokens (1)
MismatchNode ==
    [name |-> Some(<<"B", "%", "s">>), description |-> None,
     addressOffset |-> Some(<<"4">>), size |-> None,
     access |-> None, resetValue |-> None, resetMask |-> None,
     dim |-> Some(<<"2">>), dimIncrement |-> Some(<<"4">>),
     dimIndex |-> Some(<<"0">>),
     fields |-> <<FieldEN>>]

\* an array without dimIndex
NoIndexNode ==
    [name |-> Some(<<"D", "%", "s">>), description |-> None,
     addressOffset |-> Some(<<"4">>), size |-> None,
     access |-> None, resetValue |-> None, resetMask |-> None,
     dim |-> Some(<<"2">>), dimIncrement |-> Some(<<"4">>),
     dimIndex |-> None,
     fields |-> <<>>]

\* a register with dimIndex and dimIncrement and no dim
NoDimNode ==
    [name |-> Some(<<"E", "%", "s">>), description |-> None,
     addressOffset |-> Some(<<"4">>), size |-> None,
     access |-> None, resetValue |-> None, resetMask |-> None,
     dim |-> None, dimIncrement |-> Some(<<"4">>),
     dimIndex |-> Some(<<"0", ",", "1">>),
     fields |-> <<>>]

\* an array of one register whose name has no placeholder
NoPlaceholderNode ==
    [name |-> Some(<<"F">>), description |-> None,
     addressOffset |-> Some(<<"4">>), size |-> None,
     access |-> None, resetValue |-> None, resetMask |-> None,
     dim |-> Some(<<"1">>), dimIncrement |-> Some(<<"4">>),
     dimIndex |-> Some(<<"0">>),
     fields |-> <<FieldEN>>]

RegisterNodes ==
    {PlainNode, ArrayNode, Array3Node, MismatchNode, NoIndexNode, NoDimNode, NoPlaceholderNode}

RECURSIVE SumTo(_, _)
SumTo(lens, q) == IF q = 0 THEN 0 ELSE lens[q] + SumTo(lens, q - 1)

\* the ways to hand at most MaxRegs registers out to NumPeriph peripherals
Shapes == {lens \in [1..NumPeriph -> 0..MaxRegs] : SumTo(lens, NumPeriph) <= MaxRegs}

\* the peripherals that hold the registers of flat, lens[q] of them in peripheral q
Grouped(flat, lens) ==
    [q \in 1..NumPeriph |-> SubSeq(flat, SumTo(lens, q - 1) + 1, SumTo(lens, q))]

\* doc is a document of register nodes drawn from nodes
IsDocument(doc, nodes) ==
    \E lens \in Shapes : \E flat \in [1..SumTo(lens, NumPeriph) -> nodes] :
        doc = Grouped(flat, lens)

InitExpand ==
    /\ pc = "parse"
    /\ IsDocument(tree, RegisterNodes)
    /\ Idle

\* SVDParser.get_device
GetDevice ==
    /\ pc = "parse"
    /\ \E r \in {_parse_device(tree)} :
         IF r.ok
         THEN periphs' = r.val /\ heap' = r.heap /\ pc' = "parsed"
         ELSE periphs' = periphs /\ heap' = heap /\ pc' = r.err
    /\ UNCHANGED <<tree, given, result, p, i, f, call, dev0, npass, after1, mut>>

\* the call of duplicate_arrays_of_registers on the device: the first one,
\* or a second one on the device the first returned
CallDuplicateArrays ==
    /\ \/ pc = "parsed" /\ npass = 0
       \/ pc = "done" /\ npass = 1 /\ IsNone(mut)
    /\ npass' = npass + 1
    /\ dev0' = IF npass = 0 THEN periphs ELSE dev0
    /\ after1' = IF npass = 1 THEN periphs ELSE after1
    /\ p' = FirstVisit(periphs, 1)[1]
    /\ i' = FirstVisit(periphs, 1)[2]
    /\ pc' = IF FirstVisit(periphs, 1) = <<0, 0>> THEN "done" ELSE "dar"
    /\ UNCHANGED <<tree, given, result, periphs, heap, f, call, mut>>

\* where the loops of duplicate_arrays_of_registers go after register k of
\* peripheral q, in the peripherals ps
Resume(ps, q, k) ==
    \E next \in {NextVisit(ps, q, k)} :
        /\ p' = next[1]
        /\ i' = next[2]
        /\ pc' = IF next = <<0, 0>> THEN "done" ELSE "dar"

\* one iteration of the inner loop of duplicate_arrays_of_registers, lines 212-216
DuplicateArraysIteration ==
    /\ pc = "dar"
    /\ IF IsNone(periphs[p][i].dim)
       THEN /\ Resume(periphs, p, i)
            /\ UNCHANGED <<periphs, heap, call>>
       ELSE \E template \in {periphs[p][i]} :
            \E deleted \in {Delete(periphs[p], i)} :
            \E shared \in BOOLEAN :
            \E r \in {duplicate_array_of_registers(template, heap, shared)} :
                /\ call' = Some([input |-> template, ok |-> r.ok, output |-> r.val])
                /\ heap' = r.heap
                /\ IF r.ok
                   THEN /\ periphs' = [periphs EXCEPT ![p] = InsertReversed(deleted, i, r.val)]
                        /\ Resume(periphs', p, i)
                   ELSE /\ periphs' = [periphs EXCEPT ![p] = deleted]
                        /\ pc' = r.err
                        /\ UNCHANGED <<p, i>>
    /\ UNCHANGED <<tree, given, result, f, dev0, npass, after1, mut>>

NewField == SVDField(Some(<<"N", "E", "W">>), None, None, None, None, None)

\* the caller appends a field to the field list of register j of peripheral
\* q: device.peripherals[q].registers[j].fields.append(...)
MutateFields ==
    /\ pc = "done" /\ npass = 1
    /\ IsNone(mut)
    /\ \E q \in DOMAIN periphs : \E j \in DOMAIN periphs[q] :
         /\ heap' = [heap EXCEPT ![periphs[q][j].fields] = Append(@, NewField)]
         /\ mut' = Some(<<q, j>>)
    /\ UNCHANGED <<pc, tree, given, result, periphs, p, i, f, call, dev0, npass, after1>>

NextExpand ==
    \/ GetDevice
    \/ CallDuplicateArrays
    \/ DuplicateArraysIteration
    \/ MutateFields

SpecExpand == InitExpand /\ [][NextExpand]_vars

(* Specification SpecLarge: the same run on documents that may hold an     *)
(* array of LargeDim registers, more than there are small integers.       *)

LargeDim == 257

\* an array of LargeDim registers, each with the index token 0
LargeArrayNode ==
    [name |-> Some(<<"G", "%", "s">>), description |-> None,
     addressOffset |-> Some(<<"0">>), size |-> None,
     access |-> None, resetValue |-> None, resetMask |-> None,
     dim |-> Some(Decimal(LargeDim)), dimIncrement |-> Some(<<"4">>),
     dimIndex |-> Some([k \in 1..(2 * LargeDim - 1) |-> IF k % 2 = 1 THEN "0" ELSE ","]),
     fields |-> <<>>]

LargeNodes == {PlainNode, ArrayNode, LargeArrayNode}

InitLarge ==
    /\ pc = "parse"
    /\ IsDocument(tree, LargeNodes)
    /\ Idle

SpecLarge == InitLarge /\ [][NextExpand]_vars

(* The claims about array expansion *)

\* the indices of name at which the placeholder %s stands
Placeholders(name) ==
    {k \in 1..(Len(name) - 1) : name[k] = "%" /\ name[k + 1] = "s"}

\* a register template: dim, dim_increment, dim_index, address_offset and a
\* name are present, dim_index has dim tokens, and the name holds one
\* placeholder and no other percent sign
IsTemplate(reg) ==
    /\ ~IsNone(reg.dim) /\ ~IsNone(reg.dim_increment) /\ ~IsNone(reg.dim_index)
    /\ ~IsNone(reg.address_offset) /\ ~IsNone(reg.name)
    /\ Val(reg.dim) = Len(Val(reg.dim_index))
    /\ Cardinality(Placeholders(Val(reg.name))) = 1
    /\ Cardinality({k \in DOMAIN Val(reg.name) : Val(reg.name)[k] = "%"}) = 1

\* the k-th register (k from 0) that the expansion of a template is to produce
ExpectedCopy(t, k) ==
    LET name == Val(t.name)
        at == CHOOSE a \in Placeholders(name) : TRUE
    IN  [name |-> Some(SubSeq(name, 1, at - 1) \o Val(t.dim_index)[k + 1]
                       \o SubSeq(name, at + 2, Len(name))),
         description |-> t.description,
         address_offset |-> Some(Val(t.address_offset) + Val(t.dim_increment) * k),
         size |-> t.size, access |-> t.access,
         reset_value |-> t.reset_value, reset_mask |-> t.reset_mask,
         fields |-> t.fields,
         dim |-> None, dim_increment |-> None, dim_index |-> None]

\* C1: for a register template with dim = N and N dim_index tokens,
\* duplicate_array_of_registers returns exactly N registers; the i-th has
\* address_offset = template.address_offset + template.dim_increment * i,
\* the template's name with dim_index[i] in the placeholder's place, the
\* template's size, access, reset_value and reset_mask, and no dim,
\* dim_increment or dim_index.
C1_ExpansionOfTemplate ==
    ~IsNone(call) /\ IsTemplate(Val(call).input) =>
        LET t == Val(call).input
            out == Val(call).output
        IN  /\ Val(call).ok
            /\ Len(out) = Val(t.dim)
            /\ \A k \in 0..(Val(t.dim) - 1) : out[k + 1] = ExpectedCopy(t, k)

\* the three-register array has been expanded: T[A], T[B], T[C] at 16, 18, 20
C1_Witness ==
    /\ ~IsNone(call)
    /\ IsTemplate(Val(call).input)
    /\ Val(Val(call).input.dim) = 3
    /\ Val(call).output[3].address_offset = Some(20)
    /\ Val(call).output[3].name = Some(<<"T", "[", "C", "]">>)

\* what a register of the device is to be replaced by
Expansions(reg) ==
    IF IsNone(reg.dim) THEN <<reg>>
    ELSE [k \in 1..Val(reg.dim) |-> ExpectedCopy(reg, k - 1)]

RECURSIVE ExpectedList(_)
ExpectedList(regs) ==
    IF regs = <<>> THEN <<>> ELSE Expansions(Head(regs)) \o ExpectedList(Tail(regs))

Registers(ps) == UNION {Range(ps[q]) : q \in DOMAIN ps}

AllTemplatesGood(ps) == \A reg \in Registers(ps) : ~IsNone(reg.dim) => IsTemplate(reg)

\* C2: when every templated register of the device is a template with
\* dim == length(dim_index), duplicate_arrays_of_registers fails nowhere
\* and leaves in every peripheral the concatenation, in the original order,
\* of each plain register and of the expansions of each templated one.
C2_ReplacedInPlace ==
    npass >= 1 /\ AllTemplatesGood(dev0) =>
        /\ pc \in {"dar", "done"}
        /\ pc = "done" => \A q \in DOMAIN dev0 : periphs[q] = ExpectedList(dev0[q])

\* a peripheral of three registers with a template in the middle, and one
\* with two adjacent templates
C2_Witness ==
    /\ pc = "done" /\ npass = 1 /\ AllTemplatesGood(dev0)
    /\ \E q \in DOMAIN dev0 :
         \/ /\ Len(dev0[q]) = 3 /\ IsNone(dev0[q][1].dim)
            /\ ~IsNone(dev0[q][2].dim) /\ IsNone(dev0[q][3].dim)
            /\ Len(periphs[q]) > 3
         \/ /\ Len(dev0[q]) = 2 /\ ~IsNone(dev0[q][1].dim) /\ ~IsNone(dev0[q][2].dim)
            /\ Len(periphs[q]) = 5

\* C3 as stated: when the transform fails on dim != length(dim_index),
\* every peripheral's register list is as it was before the call.
C3_FailureChangesNothing ==
    pc = "AssertionError" => periphs = dev0

\* the array descriptor of a register is whole and consistent, or absent
DescriptorInvariant(reg) ==
    \/ /\ ~IsNone(reg.dim) /\ ~IsNone(reg.dim_increment) /\ ~IsNone(reg.dim_index)
       /\ Val(reg.dim) = Len(Val(reg.dim_index))
    \/ IsNone(reg.dim) /\ IsNone(reg.dim_increment) /\ IsNone(reg.dim_index)

\* C5 as stated: every register the parser builds satisfies the invariant,
\* and so does every register of the device after array expansion.
C5_DescriptorInvariantHolds ==
    pc \in {"parsed", "dar", "done"} => \A reg \in Registers(periphs) : DescriptorInvariant(reg)

Commas(s) == Cardinality({k \in DOMAIN s : s[k] = ","})

\* the invariant, read off the register node
NodeDescriptorWhole(node) ==
    \/ /\ ~IsNone(node.dim) /\ ~IsNone(node.dimIncrement) /\ ~IsNone(node.dimIndex)
       /\ RefValue(Val(node.dim), 10) = Commas(Val(node.dimIndex)) + 1
    \/ IsNone(node.dim) /\ IsNone(node.dimIncrement) /\ IsNone(node.dimIndex)

\* the peripheral and the index in dev0 of the register that each register
\* of an expanded list comes from
RECURSIVE OriginList(_, _)
OriginList(regs, j) ==
    IF j > Len(regs) THEN <<>>
    ELSE [k \in 1..(IF IsNone(regs[j].dim) THEN 1 ELSE Val(regs[j].dim)) |-> j]
         \o OriginList(regs, j + 1)

Origin(pos) == <<pos[1], OriginList(dev0[pos[1]], 1)[pos[2]]>>

Positions == UNION {{<<q, j>> : j \in DOMAIN periphs[q]} : q \in DOMAIN periphs}

\* C5 amended: a register built by _parse_register has dim, dim_increment
\* and dim_index present exactly when its node has dim, dimIncrement and
\* dimIndex, each on its own, with dim the number read and dim_index the
\* comma-separated tokens; so it satisfies the invariant exactly when its
\* node carries all three with dim equal to the number of tokens, or none.
\* After array expansion has returned, no register of the device has a dim
\* and every register the expansion produced has none of the three.
C5_DescriptorAsWritten ==
    /\ pc = "parsed" =>
         \A q \in DOMAIN tree : \A j \in DOMAIN tree[q] :
             LET node == tree[q][j]
                 reg == periphs[q][j]
             IN  /\ IsNone(reg.dim) <=> IsNone(node.dim)
                 /\ IsNone(reg.dim_increment) <=> IsNone(node.dimIncrement)
                 /\ IsNone(reg.dim_index) <=> IsNone(node.dimIndex)
                 /\ ~IsNone(node.dim) => reg.dim = Some(RefValue(Val(node.dim), 10))
                 /\ ~IsNone(node.dimIndex) =>
                        Len(Val(reg.dim_index)) = Commas(Val(node.dimIndex)) + 1
                 /\ DescriptorInvariant(reg) <=> NodeDescriptorWhole(node)
    /\ pc = "done" =>
         \A pos \in Positions :
             LET reg == periphs[pos[1]][pos[2]]
                 from == dev0[Origin(pos)[1]][Origin(pos)[2]]
             IN  /\ IsNone(reg.dim)
                 /\ ~IsNone(from.dim) =>
                        IsNone(reg.dim_increment) /\ IsNone(reg.dim_index)

\* expansion has returned; it produced registers, and a register with a
\* dim_index and no dim is still in the device
C5_Witness ==
    /\ pc = "done"
    /\ \E reg \in Registers(dev0) : ~IsNone(reg.dim)
    /\ \E reg \in Registers(periphs) : ~DescriptorInvariant(reg)

FieldsAt(h, ps, pos) == h[ps[pos[1]][pos[2]].fields]

\* one step of a run: expansion hands every produced register the field
\* list of the register it came from, and a change made through one register
\* reaches exactly the registers of the same origin
C8_Step ==
    /\ pc' = "done" =>
         \A pos \in Positions' :
             periphs'[pos[1]][pos[2]].fields = dev0'[Origin(pos)'[1]][Origin(pos)'[2]].fields
    /\ IsNone(mut) /\ ~IsNone(mut') =>
         \A pos \in Positions :
             IF Origin(pos) = Origin(Val(mut'))
             THEN /\ FieldsAt(heap', periphs', pos) = FieldsAt(heap', periphs', Val(mut'))
                  /\ FieldsAt(heap', periphs', pos) # FieldsAt(heap, periphs, pos)
             ELSE FieldsAt(heap', periphs', pos) = FieldsAt(heap, periphs, pos)

\* C8: the registers produced from one template hold the template's field
\* list itself: a change the caller makes to the list through one of them
\* shows through each of its siblings and through no other register.
C8_FieldListShared == [][C8_Step]_vars

\* the caller changed the field list of a produced register that has a
\* sibling, in a device that also holds a register of another origin
C8_Witness ==
    /\ pc = "done" /\ ~IsNone(mut)
    /\ \E pos \in Positions : pos # Val(mut) /\ Origin(pos) = Origin(Val(mut))
    /\ \E pos \in Positions : Origin(pos) # Origin(Val(mut))

\* C10: for a device whose templated registers are templates with
\* dim == length(dim_index), the first application returns and leaves no
\* register with a dim, and a second application returns and leaves every
\* register list as the first left it.
C10_Idempotent ==
    npass >= 1 /\ AllTemplatesGood(dev0) =>
        /\ pc \in {"dar", "done"}
        /\ pc = "done" => \A reg \in Registers(periphs) : IsNone(reg.dim)
        /\ npass = 2 => periphs = after1

\* the second application has returned on a device that had templates
C10_Witness ==
    /\ npass = 2 /\ pc = "done"
    /\ \E reg \in Registers(dev0) : ~IsNone(reg.dim)
    /\ \E q \in DOMAIN periphs : Len(periphs[q]) > Len(dev0[q])

-----------------------------------------------------------------------------
(* Specification SpecReserved: a device without register arrays is parsed  *)
(* and remove_reserved is applied to it.                                   *)

FieldReservedMixed == [FieldEN EXCEPT !.name = Some(<<"R", "e", "s", "e", "r", "v", "e", "d">>)]
FieldReservedUpper == [FieldEN EXCEPT !.name = Some(<<"R", "E", "S", "E", "R", "V", "E", "D">>)]

Named(name, fields) == [PlainNode EXCEPT !.name = name, !.fields = fields]

ReservedNodes ==
    { Named(Some(<<"A">>), <<FieldEN>>),
      Named(Some(<<"R", "E", "S", "E", "R", "V", "E">>), <<>>),
      Named(Some(<<"R", "E", "S", "E", "R", "V", "E", "D", "0">>), <<FieldEN>>),
      Named(Some(<<"P", "r", "e", "s", "e", "r", "v", "e", "d">>), <<>>),
      Named(Some(<<"C">>), <<FieldEN, FieldReservedMixed>>),
      Named(Some(<<"D">>), <<FieldReservedUpper, FieldMD>>),
      Named(None, <<>>) }

InitReserved ==
    /\ pc = "parse"
    /\ IsDocument(tree, ReservedNodes)
    /\ Idle

reserved == <<"r", "e", "s", "e", "r", "v", "e", "d">>

\* the call of remove_reserved on the parsed device
CallRemoveReserved ==
    /\ pc = "parsed"
    /\ dev0' = periphs
    /\ \E first \in {FirstVisit(periphs, 1)} :
         /\ p' = first[1]
         /\ i' = first[2]
         /\ pc' = IF first = <<0, 0>> THEN "done" ELSE "reg"
    /\ UNCHANGED <<tree, given, result, periphs, heap, f, call, npass, after1, mut>>

\* where the loops of remove_reserved go after register k of peripheral q
ResumeRegisters(ps, q, k) ==
    \E next \in {NextVisit(ps, q, k)} :
        /\ p' = next[1]
        /\ i' = next[2]
        /\ pc' = IF next = <<0, 0>> THEN "done" ELSE "reg"

\* one iteration of the register loop of remove_reserved, lines 223-226,
\* up to the first iteration of the field loop
RemoveReservedRegister ==
    /\ pc = "reg"
    /\ IF i > Len(periphs[p])
       THEN pc' = "IndexError" /\ UNCHANGED <<periphs, p, i, f>>
       ELSE IF IsNone(periphs[p][i].name)
       THEN pc' = "AttributeError" /\ UNCHANGED <<periphs, p, i, f>>
       ELSE IF Contains(Lower(Val(periphs[p][i].name)), reserved)
       THEN /\ periphs' = [periphs EXCEPT ![p] = Delete(@, i)]
            /\ ResumeRegisters(periphs', p, i)
            /\ UNCHANGED f
       ELSE IF Len(heap[periphs[p][i].fields]) = 0
       THEN /\ ResumeRegisters(periphs, p, i)
            /\ UNCHANGED <<periphs, f>>
       ELSE /\ f' = Len(heap[periphs[p][i].fields])
            /\ pc' = "field"
            /\ UNCHANGED <<periphs, p, i>>
    /\ UNCHANGED <<tree, given, result, heap, call, dev0, npass, after1, mut>>

\* one iteration of the field loop of remove_reserved, lines 227-228
RemoveReservedField ==
    /\ pc = "field"
    /\ IF i > Len(periphs[p])
       THEN pc' = "IndexError" /\ UNCHANGED <<periphs, p, i, f>>
       ELSE IF f > Len(heap[periphs[p][i].fields])
       THEN pc' = "IndexError" /\ UNCHANGED <<periphs, p, i, f>>
       ELSE IF IsNone(heap[periphs[p][i].fields][f].name)
       THEN pc' = "AttributeError" /\ UNCHANGED <<periphs, p, i, f>>
       ELSE /\ periphs' = IF Contains(Lower(Val(heap[periphs[p][i].fields][f].name)), reserved)
                          THEN [periphs EXCEPT ![p] = Delete(@, i)]
                          ELSE periphs
            /\ IF f > 1
               THEN f' = f - 1 /\ UNCHANGED <<pc, p, i>>
               ELSE ResumeRegisters(periphs', p, i) /\ UNCHANGED f
    /\ UNCHANGED <<tree, given, result, heap, call, dev0, npass, after1, mut>>

NextReserved ==
    \/ GetDevice
    \/ CallRemoveReserved
    \/ RemoveReservedRegister
    \/ RemoveReservedField

SpecReserved == InitReserved /\ [][NextReserved]_vars

(* The claims about reserved removal *)

HasReservedName(x) == Contains(Lower(Val(x.name)), reserved)

\* a register that remove_reserved is to delete
IsReserved(reg) ==
    \/ HasReservedName(reg)
    \/ \E k \in DOMAIN heap[reg.fields] : HasReservedName(heap[reg.fields][k])

NotReserved(reg) == ~IsReserved(reg)

AllNamesPresent(ps) ==
    \A reg \in Registers(ps) :
        /\ ~IsNone(reg.name)
        /\ \A k \in DOMAIN heap[reg.fields] : ~IsNone(heap[reg.fields][k].name)

Called == pc \notin {"parse", "parsed"}

\* C4: for every device whose names are all present, remove_reserved
\* returns, and every peripheral's register list is then the original one
\* without the registers whose name, or one of whose fields' names, contains
\* "reserved", the others in their prior order.
C4_ExactlyReservedRemoved ==
    Called /\ AllNamesPresent(dev0) =>
        /\ pc \in {"reg", "field", "done"}
        /\ pc = "done" => \A q \in DOMAIN dev0 : periphs[q] = SelectSeq(dev0[q], NotReserved)

\* what holds of the code: when remove_reserved returns, the lists are as C4 says
RemoveReservedPartial ==
    pc = "done" => \A q \in DOMAIN dev0 : periphs[q] = SelectSeq(dev0[q], NotReserved)

\* C9: when all names are present, at every step of the nested loops the
\* register index is an index of the register list and the field index is
\* an index of the field list of the register now at that index.
C9_IndicesInRange ==
    Called /\ AllNamesPresent(dev0) =>
        /\ pc = "reg" => i \in DOMAIN periphs[p]
        /\ pc = "field" => /\ i \in DOMAIN periphs[p]
                           /\ f \in DOMAIN heap[periphs[p][i].fields]
        /\ pc # "IndexError"

====
